---- MODULE Spec2Model ----
(***************************************************************************)
(* The metis MCP router: the active-server queue kept in config.json       *)
(* (server/src/add-new-mcp.ts), the proxy's in-memory config, backend      *)
(* clients and tool route map (server/src/mcp-proxy.ts), the chokidar      *)
(* watcher on config.json, and the reload of the backend connections.      *)
(*                                                                         *)
(* One request handler (slot "h") and the watcher callback (slot "w") run  *)
(* concurrently; each is cut at the awaits of the code that wait for I/O   *)
(* (a transport close, a backend handshake, a backend request, the         *)
(* registry file read).  An await on an already settled promise (an empty  *)
(* Promise.all, createClients of an empty list) resumes in the same turn   *)
(* and is not a cut.  A request or watcher run that ends passes through    *)
(* "done", where lastOp / wrun show what it did; nothing else runs before  *)
(* it returns, as the return is part of the same turn.                     *)
(***************************************************************************)
EXTENDS Integers, Sequences, FiniteSets, TLC

VARIABLES
    disk,               \* config.json: [ok, standard, mcpServers, servers,
                        \* queue]; ok = it parses, standard = it has the
                        \* mcpServers key
    watchPending,       \* a chokidar 'change' event is waiting to be delivered
    config,             \* mcp-proxy.ts `config`
    connectedClients,   \* mcp-proxy.ts `connectedClients`
    openClients,        \* backend clients whose transport is open
    toolToClientMap,    \* mcp-proxy.ts `toolToClientMap`
    promptToClientMap,  \* mcp-proxy.ts `promptToClientMap`
    tempMcpQueue,       \* global.tempMcpQueue (<< >> while undefined)
    pc,                 \* position of the handler ("h") and of the watcher ("w")
    harg,               \* the handler's `name` argument
    hcfg,               \* addNewMcp's local `config`
    new,                \* per slot: the clients createClients is producing
    cause,              \* per slot: the mutation its reload answers
    loaded,             \* per slot: the mutation its loadConfig() saw
    notifications,      \* notifications/tools/list_changed emitted so far
    mutations,          \* writes so far that changed the servers list on disk
    limit,              \* how many such writes the behaviour explores
    installedGen,       \* the mutation the installed connectedClients were loaded at
    notifiedGen,        \* the latest mutation a notification was emitted for
    touched,            \* the backend used by a routed call after all others
    admitted,           \* the server of the last add_new_mcp answered with
                        \* success, while the file stays as that call wrote it
    committed,          \* committed mutations of the active set so far
    wrun,               \* what the watcher run that is ending did
    lastOp,             \* what the request that is in progress or ending did
    sharedTransport,    \* http-streaming.ts `sharedTransport` (0 while null)
    transportState,     \* per upstream transport: unborn, created, connected, closed
    req,                \* per HTTP request in flight: its position and locals
    sse,                \* the SSE entry point: its session and its shutdown
    stored,             \* the servers store-auth has answered success for,
                        \* all their credentials given
    search,             \* the searchMCPs call in progress: inputs and results
    lst,                \* a tools/list handled step by step: its position
    call,               \* a tools/call handled step by step: its position
    cli,                \* `mcp-manager add`, a process of its own: its
                        \* position in addNewMcp and its local config
    creating,           \* a createClients call step by step: the loop's
                        \* variables and the attempts made per server
    shutdown,           \* the SIGINT/SIGTERM handlers of the HTTP entry
                        \* point: the position of each
    disp                \* the route map over backends that list several
                        \* tools, and how the last tools/call was handled

vars == <<disk, watchPending, config, connectedClients, openClients,
          toolToClientMap, promptToClientMap, tempMcpQueue, pc, harg, hcfg, new,
          cause, loaded, notifications, mutations, limit, installedGen,
          notifiedGen, touched, admitted, committed, wrun, lastOp,
          sharedTransport, transportState, req, sse, stored, search,
          lst, call, cli, creating, shutdown, disp>>

httpVars == <<sharedTransport, transportState, req>>

\* the state of the other entry points, which the router's handlers and the
\* streaming HTTP routes leave alone
sideVars == <<sse, stored, search, lst, call, cli, creating, shutdown, disp>>

-----------------------------------------------------------------------------
(* Bounds and program constants *)

MAX_ACTIVE_SERVERS == 3

\* the retries of a forwarded tools/call
maxRetries == 2

\* writes that change the servers list, per behaviour of Spec
MaxMutations == 1

\* the same, per behaviour of SpecOverlap: enough for a second change to
\* arrive while the reload for the first is still connecting
MaxOverlap == 2

None == "none"

\* mcp-registry.json: servers that launch and need no credentials
Launchable == {"A", "B", "C", "D"}
\* a registry entry whose env names a credential with an empty value
NeedsAuth == {"G"}
\* a name mcp-registry.json does not hold
Unknown == {"X"}

\* a registry entry without credentials whose handshake fails on every
\* attempt; createClients leaves it out
Unreachable == {"E"}
\* the servers someone else may append to config.json
ExternalAdds == {"D"}

Registry == Launchable \cup NeedsAuth \cup Unreachable
\* the names add_new_mcp is called with; the unreachable server is called
\* for in SpecUnreachable only
AddNames == (Registry \ Unreachable) \cup Unknown

\* every backend n exposes one tool, named after it
Tools == Launchable
\* the names a tools/call may carry: the tools, and a name no backend exposes
CallNames == Tools \cup Unknown

Slots == {"h", "w"}

\* the upstream transports a behaviour may create
MaxTransports == 3

Transports == 1..MaxTransports

\* the HTTP requests that may be in flight together
Reqs == {"r1", "r2"}

\* POST /mcp with an initialize body, POST /mcp with another body,
\* DELETE /mcp, GET /health
Kinds == {"initialize", "message", "delete", "health"}

\* no request in the slot.  closed / made / via: the transport the request
\* called close() on, created, was handled by (0: none); status: the HTTP
\* status of its response (0: none yet)
IdleReq == [pc |-> "idle", kind |-> None, auth |-> FALSE,
            closed |-> 0, made |-> 0, via |-> 0, status |-> 0]

NoClient == [name |-> None, by |-> None, gen |-> 0]

\* no searchMCPs call in progress
NoSearch == [pc |-> "idle", index |-> [ok |-> FALSE, servers |-> << >>],
             query |-> None, limit |-> 0, path |-> None, results |-> << >>]

\* { servers: [], active_mcp_queue: [] }.  A config object is [servers,
\* queue, standard, mcpServers]: standard = it has the mcpServers key
EmptyConfig == [servers |-> << >>, queue |-> << >>,
                standard |-> FALSE, mcpServers |-> << >>]

\* no createClients call in progress.  servers: the argument, i: the index
\* of the server of the current iteration, count: the loop's count, clients:
\* the array being built, tried: the connects attempted per server, seen:
\* the servers the loop has reached, from: the index each client came from,
\* bad: the servers createClient made no client for
NoCreating == [pc |-> "idle", servers |-> << >>, i |-> 0, count |-> 0,
               clients |-> << >>, tried |-> << >>, seen |-> {}, from |-> << >>,
               bad |-> {}]

\* no signal received.  proxy: the handler registered by createServer,
\* graceful: gracefulShutdown; live: whether an upstream transport was open
\* when a backend client was closed
NoShutdown == [proxy |-> "idle", graceful |-> "idle", exited |-> FALSE,
               live |-> FALSE]

\* no backend listed yet and no tools/call handled.  backends: the
\* connected clients with the tools each lists, i: the client the tools/list
\* loop is at, answered: the clients that answered in this listing, map:
\* toolToClientMap, last: the last tools/call and what handled it
NoDisp == [pc |-> "idle", backends |-> << >>, i |-> 0, answered |-> {},
           map |-> [t \in {"T", "add_new_mcp", "search_mcps"} |-> None],
           last |-> [name |-> None, by |-> None]]

\* `mcp-manager add` not running
NoCli == [pc |-> "idle", name |-> None, cfg |-> EmptyConfig, result |-> None]

Range(s) == {s[i] : i \in 1..Len(s)}

Max(a, b) == IF a >= b THEN a ELSE b

-----------------------------------------------------------------------------
(* config.ts and the helpers of add-new-mcp.ts *)

\* JSON.stringify(config, null, 2): the file a config is written as
stringify(cfg) ==
    [ok |-> TRUE, standard |-> cfg.standard, mcpServers |-> cfg.mcpServers,
     servers |-> cfg.servers, queue |-> cfg.queue]

\* a file JSON.parse throws on
Garbage == [ok |-> FALSE, standard |-> FALSE, mcpServers |-> << >>,
            servers |-> << >>, queue |-> << >>]

\* convertStandardMCPConfig: one server per entry of mcpServers, in the
\* order of its keys, and an empty queue
convertStandardMCPConfig(d) ==
    [servers |-> d.mcpServers, queue |-> << >>,
     standard |-> FALSE, mcpServers |-> << >>]

\* loadConfig: the empty config when JSON.parse throws; the converted config
\* when the file has the mcpServers key; otherwise the parsed object
loadConfig(d) ==
    IF ~d.ok THEN EmptyConfig
    ELSE IF d.standard THEN convertStandardMCPConfig(d)
    ELSE [servers |-> d.servers, queue |-> d.queue,
          standard |-> FALSE, mcpServers |-> << >>]

\* _readFullConfig: the empty config when JSON.parse throws; otherwise the
\* parsed object with its missing servers / active_mcp_queue set to []
readFullConfig(d) ==
    IF d.ok
    THEN [servers |-> d.servers, queue |-> d.queue,
          standard |-> d.standard, mcpServers |-> d.mcpServers]
    ELSE EmptyConfig

\* Array.prototype.indexOf, 1-based; 0 when absent
IndexOf(s, x) ==
    IF \E i \in 1..Len(s) : s[i] = x
    THEN CHOOSE i \in 1..Len(s) : s[i] = x /\ \A j \in 1..(i - 1) : s[j] # x
    ELSE 0

\* splice(i, 1)
RemoveAt(s, i) == SubSeq(s, 1, i - 1) \o SubSeq(s, i + 1, Len(s))

RemoveFirst(s, x) == IF IndexOf(s, x) > 0 THEN RemoveAt(s, IndexOf(s, x)) ELSE s

\* a variant that pushes the name without the splice of its old place
RequeuedKeepsOld(serverName, cfg) == Append(cfg.queue, serverName)

\* the queue after the splice and the push, before any eviction
Requeued(serverName, cfg) == Append(RemoveFirst(cfg.queue, serverName), serverName)

\* the name _updateActiveMcpQueue shifts off the front, or None
evictedServerName(serverName, cfg) ==
    IF Len(Requeued(serverName, cfg)) > MAX_ACTIVE_SERVERS
    THEN Head(Requeued(serverName, cfg))
    ELSE None

\* a variant that shifts the queue but leaves the evicted server in servers
updateActiveMcpQueueKeepsServer(serverName, cfg) ==
    LET queue == Requeued(serverName, cfg)
    IN  IF Len(queue) > MAX_ACTIVE_SERVERS
        THEN [cfg EXCEPT !.queue = Tail(queue)]
        ELSE [cfg EXCEPT !.queue = queue]

updateActiveMcpQueue(serverName, cfg) ==
    LET queue == Requeued(serverName, cfg)
    IN  IF Len(queue) > MAX_ACTIVE_SERVERS
        THEN [cfg EXCEPT !.servers = RemoveFirst(cfg.servers, Head(queue)),
                         !.queue = Tail(queue)]
        ELSE [cfg EXCEPT !.queue = queue]

\* a variant that pushes the entry twice
addServerToConfigTwice(serverName, cfg) ==
    [cfg EXCEPT !.servers = Append(Append(cfg.servers, serverName), serverName)]

\* addServerToConfig: config.servers.push(serverEntry)
addServerToConfig(serverName, cfg) ==
    [cfg EXCEPT !.servers = Append(cfg.servers, serverName)]

\* _hasRequiredAuth over the registry entry's env
hasRequiredAuth(serverName) == serverName \notin NeedsAuth

\* fs.writeFileSync(CONFIG_PATH, ...): the file, the watcher's event, and the
\* count of writes that changed the servers list
writeFullConfig(cfg) ==
    /\ disk' = stringify(cfg)
    /\ watchPending' = TRUE
    /\ mutations' = IF cfg.servers # loadConfig(disk).servers
                    THEN mutations + 1 ELSE mutations
    /\ admitted' = None
    /\ UNCHANGED <<limit, httpVars, sideVars>>

noWrite == UNCHANGED <<disk, watchPending, mutations, limit, admitted, httpVars, sideVars>>

-----------------------------------------------------------------------------
(* client.ts and reloadServerConnections of mcp-proxy.ts *)

\* the handshake with backend n succeeds
Connects(n) == n \notin Unreachable

\* createClients: one client per server that connects, in config order
createClients(servers, s, g) ==
    LET up == SelectSeq(servers, Connects)
    IN  [i \in 1..Len(up) |-> [name |-> up[i], by |-> s, gen |-> g]]

\* the proxy's memory, as one value the reload steps transform
Mem ==
    [config |-> config, cc |-> connectedClients, open |-> openClients,
     map |-> toolToClientMap, prompts |-> promptToClientMap, pc |-> pc, new |-> new, loaded |-> loaded,
     cause |-> cause, notes |-> notifications,
     inst |-> installedGen, notif |-> notifiedGen]

Commit(m) ==
    /\ config' = m.config
    /\ connectedClients' = m.cc
    /\ openClients' = m.open
    /\ toolToClientMap' = m.map
    /\ promptToClientMap' = m.prompts
    /\ pc' = m.pc
    /\ new' = m.new
    /\ loaded' = m.loaded
    /\ cause' = m.cause
    /\ notifications' = m.notes
    /\ installedGen' = m.inst
    /\ notifiedGen' = m.notif

EmptyMap == [t \in CallNames |-> NoClient]

\* no tools/list in progress.  arr: the array the loop iterates, i: the next
\* client to ask, tools: allTools so far, before: the route map as it was
\* when the handler started
NoList == [pc |-> "idle", arr |-> << >>, i |-> 0, tools |-> {},
           before |-> EmptyMap]

\* no tools/call in progress.  attempt: the loop variable, tries: requests
\* sent so far, closes: requests that failed with -32000 'Connection closed'
NoCall == [pc |-> "idle", name |-> None, client |-> NoClient, attempt |-> 0,
           tries |-> 0, closes |-> 0, result |-> None]

\* the loop over the clients of a tools/list: toolToClientMap.set(tool.name,
\* connectedClient) for every client that answers, in array order
fanOut(map, clients, open) ==
    [t \in CallNames |->
        LET hits == {i \in 1..Len(clients) : clients[i].name = t /\ clients[i] \in open}
        IN  IF hits = {} THEN map[t]
            ELSE clients[CHOOSE i \in hits : \A j \in hits : j <= i]]

\* a variant that emits the notification twice
notifyToolListChangedTwice(m, s) ==
    [m EXCEPT !.notes = @ + 2, !.notif = Max(@, m.cause[s])]

\* notifyToolListChanged
notifyToolListChanged(m, s) ==
    [m EXCEPT !.notes = @ + 1, !.notif = Max(@, m.cause[s])]

\* reloadServerConnections from the resumption after createClients: install
\* the clients, clear the maps, notify; the add_new_mcp handler then rebuilds
\* the tool map from the installed clients and answers
installClients(m, s) ==
    LET m1 == [m EXCEPT !.cc = m.new[s],
                        !.inst = m.loaded[s],
                        !.map = EmptyMap,
                        !.prompts = EmptyMap]
        m2 == notifyToolListChanged(m1, s)
        m3 == [m2 EXCEPT !.new[s] = << >>, !.loaded[s] = 0, !.cause[s] = 0,
                         !.pc[s] = "done"]
    IN  IF s = "h"
        THEN [m3 EXCEPT !.map = fanOut(m3.map, m3.cc, m3.open)]
        ELSE m3

\* reloadServerConnections from the resumption after the cleanups: load the
\* config and start createClients; with no server to connect there is nothing
\* to wait for
loadAndConnect(m, s, d, g) ==
    LET cfg == loadConfig(d)
        fresh == createClients(cfg.servers, s, g)
        m1 == [m EXCEPT !.config = cfg,
                        !.loaded[s] = g,
                        !.new[s] = fresh,
                        !.open = @ \cup Range(fresh),
                        !.pc[s] = "connect"]
    IN  IF cfg.servers = << >> THEN installClients(m1, s) ELSE m1

\* reloadServerConnections from its call: every current client's cleanup is
\* called; with no client there is nothing to wait for
reloadServerConnections(m, s, d, g) ==
    LET m1 == [m EXCEPT !.open = @ \ Range(m.cc),
                        !.cause[s] = g,
                        !.pc[s] = "cleanup"]
    IN  IF m.cc = << >> THEN loadAndConnect(m1, s, d, g) ELSE m1

-----------------------------------------------------------------------------
(* Initial state: createServer has loaded config.json and connected its     *)
(* servers.  The file is in the internal dialect and lists no server, two   *)
(* servers or three, all queued in the order they were added.               *)

InitialConfigs ==
    {EmptyConfig,
     [EmptyConfig EXCEPT !.servers = <<"A", "B">>, !.queue = <<"A", "B">>],
     [EmptyConfig EXCEPT !.servers = <<"A", "B", "C">>,
                         !.queue = <<"A", "B", "C">>]}

\* a config.json in the standard dialect, { mcpServers: { A: .., B: .. } },
\* as its owner wrote it and as an earlier add_new_mcp C left it
StandardFiles ==
    {[ok |-> TRUE, standard |-> TRUE, mcpServers |-> <<"A", "B">>,
      servers |-> << >>, queue |-> << >>],
     [ok |-> TRUE, standard |-> TRUE, mcpServers |-> <<"A", "B">>,
      servers |-> <<"C">>, queue |-> <<"C">>]}

NoOp == [result |-> None, name |-> None, evicted |-> None, tools |-> {}]

StartWith(k, files) ==
    /\ disk \in files
    /\ limit = k
    /\ watchPending = FALSE
    /\ config = loadConfig(disk)
    /\ connectedClients = createClients(config.servers, "start", 0)
    /\ openClients = Range(connectedClients)
    /\ toolToClientMap = EmptyMap
    /\ promptToClientMap = EmptyMap
    /\ tempMcpQueue = << >>
    /\ pc = [s \in Slots |-> "idle"]
    /\ harg = None
    /\ hcfg = EmptyConfig
    /\ new = [s \in Slots |-> << >>]
    /\ cause = [s \in Slots |-> 0]
    /\ loaded = [s \in Slots |-> 0]
    /\ notifications = 0
    /\ mutations = 0
    /\ installedGen = 0
    /\ notifiedGen = 0
    /\ touched = None
    /\ admitted = None
    /\ committed = 0
    /\ wrun = None
    /\ lastOp = NoOp
    /\ sharedTransport = 0
    /\ transportState = [t \in Transports |-> "unborn"]
    /\ req = [r \in Reqs |-> IdleReq]
    /\ sse = "connected"
    /\ stored = {}
    /\ search = NoSearch
    /\ lst = NoList
    /\ call = NoCall
    /\ cli = NoCli
    /\ creating = NoCreating
    /\ shutdown = NoShutdown
    /\ disp = NoDisp

Start(k) == StartWith(k, {stringify(cfg) : cfg \in InitialConfigs})

Init == Start(MaxMutations)

\* the router started on a config.json in the standard dialect
InitStandard == StartWith(MaxMutations, StandardFiles)

InitOverlap == Start(MaxOverlap)

\* no request or watcher run is at its end
Running ==
    /\ \A s \in Slots : pc[s] # "done"
    /\ sse # "exited"
    /\ ~shutdown.exited

\* the chokidar watcher has not been closed
Watching == sse \in {"connected", "kept"} /\ shutdown = NoShutdown

handlerVars == <<tempMcpQueue, harg, hcfg, touched, committed, wrun>>

-----------------------------------------------------------------------------
(* The request handlers of mcp-proxy.ts *)

\* the backends whose tools a tools/list response carries, each tool's
\* description prefixed with [name]: the connected clients that answer
listedTools(clients, open) == {c.name : c \in Range(clients) \cap open}

\* the tools the proxy serves itself
BuiltInTools == {"add_new_mcp", "search_mcps"}

\* a variant that answers with what the backends list and nothing else when
\* no backend answers
listToolsResponseBackendsFirst(clients, open) ==
    IF listedTools(clients, open) = {} THEN {}
    ELSE listedTools(clients, open) \cup BuiltInTools

\* the tools of a tools/list response: those of the backends that answer
\* (backend n lists one tool, n), then the two built-in tools
listToolsResponse(clients, open) == listedTools(clients, open) \cup BuiltInTools

\* tools/list: clear the route map, ask every connected client in turn and
\* route its tool to it; a client whose request fails is skipped
ListTools ==
    /\ Running
    /\ pc["h"] = "idle"
    /\ Commit([Mem EXCEPT !.map = fanOut(EmptyMap, connectedClients, openClients),
                          !.pc["h"] = "done"])
    /\ lastOp' = [result |-> "listed", name |-> None, evicted |-> None,
                  tools |-> listToolsResponse(connectedClients, openClients)]
    /\ noWrite
    /\ UNCHANGED handlerVars

\* backend n answers prompts/list with its one prompt, n; the others answer
\* with error -32601 (method not found)
NoPrompts == {"B"}

SupportsPrompts(c) == c.name \notin NoPrompts

\* a variant in which one backend without prompts fails the whole request
listPromptsResponseAllOrNothing(clients, open) ==
    IF \E c \in Range(clients) \cap open : ~SupportsPrompts(c) THEN {}
    ELSE listedTools(clients, open)

\* the prompts of a prompts/list response: those of the connected clients
\* that answer with a result
listPromptsResponse(clients, open) ==
    listedTools(SelectSeq(clients, SupportsPrompts), open)

\* prompts/list: clear the prompt map, ask every connected client in turn
\* and route its prompt to it; a client that answers with an error is skipped
ListPrompts ==
    /\ Running
    /\ pc["h"] = "idle"
    /\ Commit([Mem EXCEPT
            !.prompts = fanOut(EmptyMap, SelectSeq(connectedClients, SupportsPrompts),
                               openClients),
            !.pc["h"] = "done"])
    /\ lastOp' = [result |-> "prompts-listed", name |-> None, evicted |-> None,
                  tools |-> listPromptsResponse(connectedClients, openClients)]
    /\ noWrite
    /\ UNCHANGED handlerVars

\* a variant that persists the recomputed queue
heatUpMcpServerPersists(serverName) ==
    /\ tempMcpQueue' = tempMcpQueue
    /\ IF serverName \in Range(readFullConfig(disk).servers)
       THEN writeFullConfig(updateActiveMcpQueue(serverName, readFullConfig(disk)))
       ELSE noWrite

\* heatUpMcpServer: the queue is recomputed from the file and kept in
\* global.tempMcpQueue; nothing is written
heatUpMcpServer(serverName) ==
    /\ tempMcpQueue' =
          IF serverName \in Range(readFullConfig(disk).servers)
          THEN updateActiveMcpQueue(serverName, readFullConfig(disk)).queue
          ELSE tempMcpQueue
    /\ noWrite

\* tools/call of a name that is not a built-in tool
CallTool(t) ==
    /\ Running
    /\ pc["h"] = "idle"
    /\ IF toolToClientMap[t] = NoClient
       THEN /\ lastOp' = [result |-> "unknown-tool", name |-> t, evicted |-> None, tools |-> {}]
            /\ noWrite
            /\ UNCHANGED <<tempMcpQueue, touched>>
       ELSE LET clientForTool == toolToClientMap[t]
            IN  /\ heatUpMcpServer(clientForTool.name)
                /\ touched' =
                      IF clientForTool.name \notin Range(readFullConfig(disk).servers)
                      THEN touched
                      ELSE IF clientForTool \in openClients
                           THEN clientForTool.name ELSE None
                /\ lastOp' = [result |-> IF clientForTool \in openClients
                                         THEN "forwarded" ELSE "connection-closed",
                              name |-> t, evicted |-> None, tools |-> {}]
    /\ Commit([Mem EXCEPT !.pc["h"] = "done"])
    /\ UNCHANGED <<harg, hcfg, committed, wrun>>

\* add_new_mcp, up to the await of the registry read: addNewMcp reads the file
AddRead(n) ==
    /\ Running
    /\ pc["h"] = "idle"
    /\ mutations < limit
    /\ hcfg' = readFullConfig(disk)
    /\ harg' = n
    /\ Commit([Mem EXCEPT !.pc["h"] = "addGap"])
    /\ noWrite
    /\ UNCHANGED <<tempMcpQueue, touched, committed, wrun, lastOp>>

\* a variant in which the handler reloads the connections whatever the
\* result of addNewMcp
AddFailsAndReloads(result, evicted) ==
    /\ lastOp' = [result |-> result, name |-> harg, evicted |-> evicted,
                  tools |-> {}]
    /\ Commit(reloadServerConnections(Mem, "h", disk', mutations'))
    /\ harg' = None
    /\ hcfg' = EmptyConfig
    /\ UNCHANGED <<tempMcpQueue, wrun>>

\* addNewMcp returns without success: the handler answers at once
AddFails(result, evicted) ==
    /\ lastOp' = [result |-> result, name |-> harg, evicted |-> evicted,
                  tools |-> {}]
    /\ Commit([Mem EXCEPT !.pc["h"] = "done"])
    /\ harg' = None
    /\ hcfg' = EmptyConfig
    /\ UNCHANGED <<tempMcpQueue, wrun>>

\* addNewMcp's catch branch: the registry read threw
AddThrows ==
    /\ Running
    /\ pc["h"] = "addGap"
    /\ writeFullConfig(hcfg)
    /\ committed' = IF hcfg.servers # loadConfig(disk).servers
                    THEN committed + 1 ELSE committed
    /\ UNCHANGED touched
    /\ AddFails("error", None)

\* addNewMcp: the name is not in the registry
AddNotFound ==
    /\ Running
    /\ pc["h"] = "addGap"
    /\ harg \notin Registry
    /\ noWrite
    /\ UNCHANGED committed
    /\ UNCHANGED touched
    /\ AddFails("not-found", None)

\* addNewMcp: the server is already in config.servers
AddAlreadyExists ==
    /\ Running
    /\ pc["h"] = "addGap"
    /\ harg \in Registry
    /\ harg \in Range(hcfg.servers)
    /\ LET cfg == updateActiveMcpQueue(harg, hcfg)
       IN  /\ writeFullConfig(cfg)
           /\ committed' = IF cfg.servers # loadConfig(disk).servers
                           THEN committed + 1 ELSE committed
    /\ touched' = None
    /\ AddFails("already-exists", evictedServerName(harg, hcfg))

\* addNewMcp: a credential of the registry entry is empty
AddNeedsAuth ==
    /\ Running
    /\ pc["h"] = "addGap"
    /\ harg \in Registry
    /\ harg \notin Range(hcfg.servers)
    /\ ~hasRequiredAuth(harg)
    /\ noWrite
    /\ UNCHANGED committed
    /\ UNCHANGED touched
    /\ AddFails("needs-auth", None)

\* addNewMcp succeeds: the server is appended, the queue updated, the file
\* written; the handler then calls reloadServerConnections in the same turn
AddSucceeds ==
    /\ Running
    /\ pc["h"] = "addGap"
    /\ harg \in Registry
    /\ harg \notin Range(hcfg.servers)
    /\ hasRequiredAuth(harg)
    /\ LET added == addServerToConfig(harg, hcfg)
           cfg == updateActiveMcpQueue(harg, added)
       IN  /\ writeFullConfig(cfg)
           /\ lastOp' = [result |-> "success", name |-> harg,
                         evicted |-> evictedServerName(harg, added),
                         tools |-> {}]
    /\ committed' = committed + 1
    /\ Commit(reloadServerConnections(Mem, "h", disk', mutations'))
    /\ harg' = None
    /\ hcfg' = EmptyConfig
    /\ touched' = None
    /\ UNCHANGED <<tempMcpQueue, wrun>>

-----------------------------------------------------------------------------
(* The resumptions of reloadServerConnections, in either slot *)

ReloadLoad(s) ==
    /\ Running
    /\ pc[s] = "cleanup"
    /\ Commit(loadAndConnect(Mem, s, disk, mutations))
    /\ noWrite
    /\ UNCHANGED <<handlerVars, lastOp>>

ReloadInstall(s) ==
    /\ Running
    /\ pc[s] = "connect"
    /\ Commit(installClients(Mem, s))
    /\ noWrite
    /\ UNCHANGED <<handlerVars, lastOp>>

\* the request's response is sent / the watcher callback returns
Return(s) ==
    /\ pc[s] = "done"
    /\ Commit([Mem EXCEPT !.pc[s] = "idle"])
    /\ lastOp' = IF s = "h" THEN NoOp ELSE lastOp
    /\ wrun' = IF s = "w" THEN None ELSE wrun
    /\ admitted' = IF s = "h" /\ lastOp.result = "success"
                   THEN lastOp.name ELSE admitted
    /\ UNCHANGED <<disk, watchPending, mutations, limit, httpVars, sideVars>>
    /\ UNCHANGED <<tempMcpQueue, harg, hcfg, touched, committed>>

-----------------------------------------------------------------------------
(* The chokidar 'change' callback of mcp-proxy.ts *)

\* a variant that takes every event for a change of the servers
hasServerChangesAlways(cfg, newConfig) == cfg.servers = cfg.servers

\* JSON.stringify(config.servers) !== JSON.stringify(newConfig.servers)
hasServerChanges(cfg, newConfig) == cfg.servers # newConfig.servers

WatchReloads ==
    /\ Running
    /\ Watching
    /\ watchPending
    /\ pc["w"] = "idle"
    /\ hasServerChanges(config, loadConfig(disk))
    /\ watchPending' = FALSE
    /\ wrun' = "reload"
    /\ Commit(reloadServerConnections(Mem, "w", disk, mutations))
    /\ UNCHANGED <<disk, mutations, limit, tempMcpQueue, harg, hcfg, touched,
                   admitted, committed, lastOp, httpVars, sideVars>>

WatchSkips ==
    /\ Running
    /\ Watching
    /\ watchPending
    /\ pc["w"] = "idle"
    /\ ~hasServerChanges(config, loadConfig(disk))
    /\ watchPending' = FALSE
    /\ wrun' = "skip"
    /\ Commit([Mem EXCEPT !.config = loadConfig(disk), !.pc["w"] = "done"])
    /\ UNCHANGED <<disk, mutations, limit, tempMcpQueue, harg, hcfg, touched,
                   admitted, committed, lastOp, httpVars, sideVars>>

-----------------------------------------------------------------------------
(* Writes to config.json by someone else *)

\* a server is appended to the servers array, or to mcpServers in a file of
\* the standard dialect, the queue left as it is
ExternalAddServer(n) ==
    /\ Running
    /\ mutations < limit
    /\ disk.ok
    /\ n \notin Range(loadConfig(disk).servers)
    /\ disk' = IF disk.standard
               THEN [disk EXCEPT !.mcpServers = Append(@, n)]
               ELSE [disk EXCEPT !.servers = Append(@, n)]
    /\ watchPending' = TRUE
    /\ mutations' = mutations + 1
    /\ committed' = committed + 1
    /\ touched' = None
    /\ admitted' = None
    /\ Commit(Mem)
    /\ UNCHANGED <<limit, tempMcpQueue, harg, hcfg, wrun, lastOp, httpVars, sideVars>>

\* the file is replaced by text that does not parse (or is seen half-written)
ExternalCorrupt ==
    /\ Running
    /\ mutations < limit
    /\ disk.ok
    /\ disk' = Garbage
    /\ watchPending' = TRUE
    /\ mutations' = IF loadConfig(disk).servers # << >>
                    THEN mutations + 1 ELSE mutations
    /\ committed' = IF loadConfig(disk).servers # << >>
                    THEN committed + 1 ELSE committed
    /\ touched' = None
    /\ admitted' = None
    /\ Commit(Mem)
    /\ UNCHANGED <<limit, tempMcpQueue, harg, hcfg, wrun, lastOp, httpVars, sideVars>>

-----------------------------------------------------------------------------

Next ==
    \/ ListTools
    \/ \E t \in CallNames : CallTool(t)
    \/ \E n \in AddNames : AddRead(n)
    \/ AddThrows
    \/ AddNotFound
    \/ AddAlreadyExists
    \/ AddNeedsAuth
    \/ AddSucceeds
    \/ \E s \in Slots : ReloadLoad(s)
    \/ \E s \in Slots : ReloadInstall(s)
    \/ \E s \in Slots : Return(s)
    \/ WatchReloads
    \/ WatchSkips
    \/ \E n \in ExternalAdds : ExternalAddServer(n)

Spec == Init /\ [][Next]_vars

SpecOverlap == InitOverlap /\ [][Next]_vars

SpecStandard == InitStandard /\ [][Next]_vars

\* the router asked to admit a server whose handshake fails
NextUnreachable == Next \/ \E n \in Unreachable : AddRead(n)

SpecUnreachable == Init /\ [][NextUnreachable]_vars

\* the router also asked for its prompts
NextPrompts == Next \/ ListPrompts

SpecPrompts == Init /\ [][NextPrompts]_vars

\* the router with a config.json that may stop parsing
NextCorrupt == Next \/ ExternalCorrupt

SpecCorrupt == Init /\ [][NextCorrupt]_vars

-----------------------------------------------------------------------------
(* Properties *)

\* the server names of a list of clients, in order
clientNames(clients) == [i \in 1..Len(clients) |-> clients[i].name]

\* the slot takes a step of its run
Steps(s) == pc'[s] # pc[s]

\* the watcher callback is delivered the pending 'change' event
Delivered == watchPending /\ ~watchPending'

\* C1: in every reachable state the number of active backends, the entries of
\* config.servers and the connected backend clients, is at most
\* MAX_ACTIVE_SERVERS.
C1_ActiveWithinCeiling ==
    /\ Len(config.servers) <= MAX_ACTIVE_SERVERS
    /\ Len(connectedClients) <= MAX_ACTIVE_SERVERS

\* C2: when addNewMcp admits a new server while the queue it read holds
\* MAX_ACTIVE_SERVERS entries, the file it writes has lost exactly the front
\* entry of that queue, from the queue and from the servers, keeps all other
\* entries in their order, and has the new server at the back of both.
C2_AdmissionEvictsColdEnd ==
    [][(/\ pc["h"] = "addGap"
        /\ lastOp'.result = "success"
        /\ Len(hcfg.queue) = MAX_ACTIVE_SERVERS
        /\ harg \notin Range(hcfg.queue))
       => /\ disk'.queue = Append(Tail(hcfg.queue), harg)
          /\ disk'.servers =
                Append(SelectSeq(hcfg.servers, LAMBDA n : n # Head(hcfg.queue)), harg)
          /\ lastOp'.evicted = Head(hcfg.queue)]_vars

\* an admission into a full queue has just evicted a server
C2_Witness ==
    /\ lastOp.result = "success"
    /\ lastOp.evicted # None
    /\ Len(disk.queue) = MAX_ACTIVE_SERVERS
    /\ lastOp.evicted \notin Range(disk.servers)

\* C3: a backend that a routed tools/call used after every other active
\* backend was last used or admitted is not the one the next admission evicts.
C3_TouchedNotEvicted ==
    [][(/\ pc["h"] = "addGap"
        /\ lastOp'.result = "success"
        /\ touched # None)
       => lastOp'.evicted # touched]_vars

\* C4: a tools/call fails as an unknown tool only when the registry does not
\* know a server for the tool; a call of a catalogued tool that has no route
\* admits its server and is forwarded.
C4_UnknownToolOnlyIfUncatalogued ==
    lastOp.result = "unknown-tool" => lastOp.name \notin Registry

\* C5: a tools/call routed to an active backend leaves config.json as it is,
\* raises no change event, closes and creates no backend client and emits no
\* notification.
C5_TouchLeavesFileAndClients ==
    [][(/\ pc["h"] = "idle"
        /\ lastOp'.result = "forwarded")
       => UNCHANGED <<disk, watchPending, config, connectedClients,
                      openClients, notifications>>]_vars

\* a routed call has just been forwarded to an active backend
C5_Witness ==
    /\ lastOp.result = "forwarded"
    /\ lastOp.name \in Range(disk.servers)
    /\ tempMcpQueue # << >>

\* C6: an add_new_mcp call that finds the server already active, or that ends
\* in an error, does not write config.json.
C6_NoWriteUnlessAdmitted ==
    [][(/\ pc["h"] = "addGap"
        /\ lastOp'.result \in {"already-exists", "error", "not-found", "needs-auth"})
       => UNCHANGED <<disk, watchPending>>]_vars

\* C7: under every interleaving of the handler's direct reload with the
\* watcher callback, the notifications emitted never outnumber the committed
\* mutations of the active set.
C7_OneNotificationPerMutation == notifications <= committed

\* C8: a tools/list answered after a notification fans out over backend
\* clients loaded at a config at least as recent as the mutation the
\* notification was emitted for.
C8_ListAsFreshAsNotification ==
    lastOp.result = "listed" => installedGen >= notifiedGen

\* C9: when the watcher is delivered an event and the servers on disk equal
\* the in-memory servers, no client is closed or created and no notification
\* is emitted; and no step of a reload writes the file or raises an event, so
\* a write by the proxy starts no chain of reloads.
C9_EqualServersSwallowed ==
    [][/\ (Delivered /\ config.servers = loadConfig(disk).servers)
          => /\ UNCHANGED <<connectedClients, openClients, notifications,
                            toolToClientMap>>
             /\ pc'["w"] = "done"
       /\ \A s \in Slots :
             (Steps(s) /\ pc[s] \in {"cleanup", "connect", "done"})
             => UNCHANGED <<disk, watchPending>>]_vars

\* the watcher has just swallowed an event for a write that left the servers
\* as they are in memory
C9_Witness ==
    /\ wrun = "skip"
    /\ pc["w"] = "done"
    /\ connectedClients # << >>

C11_UnparsableKeepsLastGood ==
    [][(Delivered /\ ~disk.ok)
       => UNCHANGED <<config, connectedClients, openClients>>]_vars

\* C12: an add_new_mcp call that ends with the server unknown to the
\* registry or with a credential missing changes nothing on its way: neither
\* its read of the file nor its return changes config.json, the in-memory
\* config, the backend clients or the notifications emitted, and no change
\* event is raised.
C12_RefusedAddChangesNothing ==
    [][(\/ pc["h"] = "idle" /\ pc'["h"] = "addGap"
        \/ pc["h"] = "addGap" /\ lastOp'.result \in {"not-found", "needs-auth"})
       => UNCHANGED <<disk, watchPending, config, connectedClients,
                      openClients, notifications>>]_vars

\* an add_new_mcp of a server whose credential is empty has just been
\* refused while backends are active
C12_Witness ==
    /\ lastOp.result = "needs-auth"
    /\ lastOp.name \in NeedsAuth
    /\ pc["h"] = "done"
    /\ connectedClients # << >>

\* C13: an add_new_mcp of a server whose handshake fails on every attempt
\* does not answer success, leaves the server out of the servers and of the
\* queue on disk, and evicts no backend.
C13_FailedHandshakeRolledBack ==
    (pc["h"] = "done" /\ lastOp.name \in Unreachable)
    => /\ lastOp.result # "success"
       /\ lastOp.evicted = None
       /\ lastOp.name \notin Range(loadConfig(disk).servers)
       /\ lastOp.name \notin Range(loadConfig(disk).queue)

\* C14: once add_new_mcp has answered success for a server and nothing has
\* written config.json since, a tools/list response carries a tool of that
\* server.
C14_AdmittedServerIsListed ==
    (lastOp.result = "listed" /\ admitted # None) => admitted \in lastOp.tools

\* no two entries of the sequence are equal
NoDuplicates(s) == \A i, j \in 1..Len(s) : i # j => s[i] # s[j]

\* C15: the servers on disk, the servers in memory and the connected clients
\* never hold the same name twice.
C15_ServerNamesUnique ==
    /\ NoDuplicates(loadConfig(disk).servers)
    /\ NoDuplicates(config.servers)
    /\ NoDuplicates(clientNames(connectedClients))

\* add_new_mcp has just been called for a server that is already in a
\* config of several servers
C15_Witness ==
    /\ lastOp.result = "already-exists"
    /\ lastOp.name \in Range(disk.servers)
    /\ Len(disk.servers) >= 2
    /\ mutations >= 1

\* C16: every tools/list response carries add_new_mcp and search_mcps,
\* whatever the active set is and also when no backend answers.
C16_BuiltInToolsAlwaysListed ==
    lastOp.result = "listed" => BuiltInTools \subseteq lastOp.tools

\* a tools/list has just been answered while every connected client's
\* request failed
C16_Witness ==
    /\ lastOp.result = "listed"
    /\ connectedClients # << >>
    /\ lastOp.tools = BuiltInTools

\* the connected clients that answer a request
Answering == Range(connectedClients) \cap openClients

\* C17: a prompts/list response carries no prompt of a backend that answers
\* -32601 and carries the prompt of every other backend that answers, and a
\* tools/list response carries the tool of every backend that answers,
\* the ones without prompts included.
C17_NoPromptsBackendSkipped ==
    /\ lastOp.result = "prompts-listed"
       => \A c \in Answering : c.name \in lastOp.tools <=> c.name \notin NoPrompts
    /\ lastOp.result = "listed"
       => \A c \in Answering : c.name \in lastOp.tools

\* a prompts/list has just been answered with the prompts of some backends
\* while a backend without prompts is connected
C17_Witness ==
    /\ lastOp.result = "prompts-listed"
    /\ \E c \in Answering : c.name \in NoPrompts
    /\ lastOp.tools # {}
    /\ promptToClientMap # EmptyMap

----------------------------------------------------------------------------
\* The HTTP session layer (src/server/src/http-streaming.ts).  One request
\* runs in each slot of Reqs; a handler is cut at the awaits of transport
\* calls (close, connect), where another request may run.

routerVars == <<disk, watchPending, config, connectedClients, openClients,
                toolToClientMap, promptToClientMap, tempMcpQueue, pc, harg,
                hcfg, new, cause, loaded, notifications, mutations, limit,
                installedGen, notifiedGen, touched, admitted, committed, wrun,
                lastOp>>

\* the middleware in front of every route but /health and /.well-known/*:
\* the call of hasValidAuth is commented out, so every request goes on
authMiddleware(auth) == "next"

Open(t) == transportState[t] \in {"created", "connected"}

OpenTransports == {t \in Transports : Open(t)}

Unborn == {t \in Transports : transportState[t] = "unborn"}

\* a close() that leaves the transport as it is
closeTransportLeavesOpen(ts, t) == ts

\* transport.close() of a transport whose onclose was set at line 125:
\* the transport is closed and its onclose sets sharedTransport to null
closeTransport(ts, t) == [ts EXCEPT ![t] = "closed"]

\* lines 116-131: new StreamableHTTPServerTransport, its onclose, and the
\* synchronous part of server.connect(sharedTransport)
createTransport(ts, t) == [ts EXCEPT ![t] = "connected"]

\* POST /mcp with an initialize body, up to its first await
PostInitialize(r, auth) ==
    IF sharedTransport # 0
    THEN /\ transportState' = closeTransport(transportState, sharedTransport)
         /\ sharedTransport' = 0
         /\ req' = [req EXCEPT ![r] = [IdleReq EXCEPT !.pc = "closeWait",
                        !.kind = "initialize", !.auth = auth,
                        !.closed = sharedTransport]]
    ELSE \E t \in Unborn :
         /\ \A u \in Unborn : t <= u
         /\ transportState' = createTransport(transportState, t)
         /\ sharedTransport' = t
         /\ req' = [req EXCEPT ![r] = [IdleReq EXCEPT !.pc = "connectWait",
                        !.kind = "initialize", !.auth = auth, !.made = t]]

\* POST /mcp with another body: handled by the shared transport, or 400
PostMessage(r, auth) ==
    /\ req' = [req EXCEPT ![r] = [IdleReq EXCEPT !.pc = "done",
                   !.kind = "message", !.auth = auth,
                   !.via = sharedTransport,
                   !.status = IF sharedTransport # 0 THEN 200 ELSE 400]]
    /\ UNCHANGED <<sharedTransport, transportState>>

\* DELETE /mcp, up to its await
Delete(r, auth) ==
    IF sharedTransport = 0
    THEN /\ req' = [req EXCEPT ![r] = [IdleReq EXCEPT !.pc = "done",
                        !.kind = "delete", !.auth = auth, !.status = 400]]
         /\ UNCHANGED <<sharedTransport, transportState>>
    ELSE /\ transportState' = closeTransport(transportState, sharedTransport)
         /\ sharedTransport' = 0
         /\ req' = [req EXCEPT ![r] = [IdleReq EXCEPT !.pc = "deleteWait",
                        !.kind = "delete", !.auth = auth,
                        !.closed = sharedTransport]]

\* GET /health: the middleware lets it through whatever its headers
Health(r, auth) ==
    /\ req' = [req EXCEPT ![r] = [IdleReq EXCEPT !.pc = "done",
                   !.kind = "health", !.auth = auth, !.status = 200]]
    /\ UNCHANGED <<sharedTransport, transportState>>

\* a request arrives and runs to its first await or to its response
Receive(r, kind, auth) ==
    /\ req[r].pc = "idle"
    /\ kind = "initialize" => Unborn # {}
    /\ \/ kind = "health" /\ Health(r, auth)
       \/ /\ kind # "health"
          /\ authMiddleware(auth) = "next"
          /\ \/ kind = "initialize" /\ PostInitialize(r, auth)
             \/ kind = "message" /\ PostMessage(r, auth)
             \/ kind = "delete" /\ Delete(r, auth)
    /\ UNCHANGED <<routerVars, sideVars>>

\* POST initialize resumes after `await sharedTransport.close()`
InitCreate(r) ==
    /\ req[r].pc = "closeWait"
    /\ \E t \in Unborn :
         /\ \A u \in Unborn : t <= u
         /\ transportState' = createTransport(transportState, t)
         /\ sharedTransport' = t
         /\ req' = [req EXCEPT ![r].pc = "connectWait", ![r].made = t]
    /\ UNCHANGED <<routerVars, sideVars>>

\* POST initialize resumes after `await server.connect(sharedTransport)`:
\* sharedTransport.handleRequest, and the catch block when that throws
InitHandle(r) ==
    /\ req[r].pc = "connectWait"
    /\ req' = [req EXCEPT ![r].pc = "done", ![r].via = sharedTransport,
                   ![r].status = IF sharedTransport # 0 THEN 200 ELSE 500]
    /\ UNCHANGED <<sharedTransport, transportState, routerVars, sideVars>>

\* DELETE resumes after `await sharedTransport.close()`
DeleteFinish(r) ==
    /\ req[r].pc = "deleteWait"
    /\ sharedTransport' = 0
    /\ req' = [req EXCEPT ![r].pc = "done", ![r].status = 200]
    /\ UNCHANGED <<transportState, routerVars, sideVars>>

\* the response has gone out
Respond(r) ==
    /\ req[r].pc = "done"
    /\ req' = [req EXCEPT ![r] = IdleReq]
    /\ UNCHANGED <<sharedTransport, transportState, routerVars, sideVars>>

NextHttp ==
    \/ \E r \in Reqs, kind \in Kinds, auth \in BOOLEAN : Receive(r, kind, auth)
    \/ \E r \in Reqs : InitCreate(r)
    \/ \E r \in Reqs : InitHandle(r)
    \/ \E r \in Reqs : DeleteFinish(r)
    \/ \E r \in Reqs : Respond(r)

SpecHttp == Init /\ [][NextHttp]_vars

C19_SingleOpenTransport ==
    /\ Cardinality(OpenTransports) <= 1
    /\ \A t \in OpenTransports : sharedTransport = t

\* C20: a request without a bearer token to a route behind the middleware is
\* answered 401, is handled by no transport and creates none.
C20_NoBearerRejected ==
    \A r \in Reqs :
        (req[r].pc = "done" /\ ~req[r].auth /\ req[r].kind # "health")
            => req[r].status = 401 /\ req[r].via = 0 /\ req[r].made = 0

----------------------------------------------------------------------------
\* The SSE entry point (sse.ts): one shared server; server.onclose is set by
\* the GET /sse handler and runs when the upstream connection closes.

sseFrame == UNCHANGED <<disk, watchPending, mutations, limit, admitted,
                        httpVars, handlerVars, lastOp, stored, search,
                        lst, call, cli, creating, shutdown, disp>>

\* server.onclose: with KEEP_SERVER_OPEN = "1" nothing is done; otherwise
\* cleanup() is called, which first awaits watcher.close()
ServerOnclose(keep) ==
    /\ Running
    /\ sse = "connected"
    /\ sse' = IF keep THEN "kept" ELSE "watcherClosed"
    /\ Commit(Mem)
    /\ sseFrame

\* cleanup() resumes: the cleanup of every member of connectedClients is
\* called and awaited
SseCleanup ==
    /\ Running
    /\ sse = "watcherClosed"
    /\ sse' = "cleaning"
    /\ Commit([Mem EXCEPT !.open = @ \ Range(connectedClients)])
    /\ sseFrame

\* onclose resumes: server.close() and process.exit(0)
SseExit ==
    /\ Running
    /\ sse = "cleaning"
    /\ sse' = "exited"
    /\ Commit(Mem)
    /\ sseFrame

\* GET /sse: a client connects to the server that was kept open
SseConnect ==
    /\ Running
    /\ sse = "kept"
    /\ sse' = "connected"
    /\ Commit(Mem)
    /\ sseFrame

NextSse ==
    \/ Next
    \/ \E keep \in BOOLEAN : ServerOnclose(keep)
    \/ SseCleanup
    \/ SseExit
    \/ SseConnect

SpecSse == Init /\ [][NextSse]_vars

\* C21: when the upstream connection closes with KEEP_SERVER_OPEN = "1", no
\* backend client is closed and the process goes on; otherwise the process
\* exits, and when it exits no backend client is open.
C21_CloseKeepsOrCleansUp ==
    [][/\ (sse = "connected" /\ sse' = "kept")
          => UNCHANGED <<connectedClients, openClients>>
       /\ (sse # "exited" /\ sse' = "exited")
          => openClients' = {}]_vars

\* C22: when config.json is in the standard dialect and add_new_mcp succeeds,
\* loadConfig of the file it writes lists every server loadConfig listed
\* before and the server that was added.
C22_StandardDialectRoundTrip ==
    [][(/\ pc["h"] = "addGap"
        /\ lastOp'.result = "success"
        /\ disk.ok /\ disk.standard)
       => /\ harg \in Range(loadConfig(disk').servers)
          /\ Range(loadConfig(disk).servers)
                \subseteq Range(loadConfig(disk').servers)]_vars

----------------------------------------------------------------------------
\* mcp-manager store-auth <server> <key=val>... (mcp-manager-cli.ts), run as
\* a process of its own beside the router.

\* the credential every server of NeedsAuth requires, and a key no server has
AuthKeys == {"API_KEY"}

OtherKeys == {"OTHER"}

\* the names of serverDef.auth_requirements: the keys of the registry entry's
\* env
authRequirements(serverName) ==
    IF serverName \in NeedsAuth THEN AuthKeys ELSE {}

\* the result of storeAuthData
storeAuthResult(serverName, authData) ==
    IF serverName \notin Registry THEN "not-found"
    ELSE IF ~(authData \subseteq authRequirements(serverName)) THEN "invalid-key"
    ELSE "success"

\* store-auth, run while the router handles no request: storeAuthData
\* validates the keys and answers; it stores nothing and the registry stays
\* as it is
StoreAuth(serverName, authData) ==
    /\ Running
    /\ pc["h"] = "idle"
    /\ authData # {}
    /\ stored' = IF /\ storeAuthResult(serverName, authData) = "success"
                    /\ authRequirements(serverName) \subseteq authData
                 THEN stored \cup {serverName}
                 ELSE stored
    /\ UNCHANGED <<routerVars, httpVars, sse, search, lst, call, cli, creating, shutdown, disp>>

NextAuth ==
    \/ Next
    \/ \E n \in NeedsAuth \cup Unknown, k \in SUBSET (AuthKeys \cup OtherKeys) :
          StoreAuth(n, k)

SpecAuth == Init /\ [][NextAuth]_vars

\* C23: add_new_mcp does not answer needs-auth for a server for which
\* store-auth has succeeded with all the required keys.
C23_StoredAuthAdmits ==
    lastOp.result = "needs-auth" => lastOp.name \notin stored

----------------------------------------------------------------------------
\* search_mcps (semantic-search.ts).  Similarities, distances and the text
\* scores divided by 100 are kept in hundredths; the embeddings are vectors
\* whose magnitudes are whole numbers, so that the cosine is exact.

\* the largest `limit` a search is called with
MaxLimit == 3

\* the embeddings the embeddings API may return for a query
QueryEmbeddings == {<<1, 0>>, <<0, 1>>, <<3, 4>>, <<4, 3>>, <<-1, 0>>, <<0, 0>>,
                    <<1, 0, 0>>}

\* the query strings, each a single word
Queries == {"a", "files", "read", "zz"}

\* word.length > 2
LongWord(w) == w \in {"files", "read"}

\* enhanced-index.json.  A text field is the set of the words it includes;
\* server "c" has no embedding
EnhancedIndex ==
    << [name |-> "a", displayName |-> {"a", "files"}, aiSummary |-> {"files", "read"},
        aiUseCases |-> <<{"read", "files"}, {"files"}>>,
        toolDescriptions |-> <<[name |-> {"read"}, description |-> {"read", "files"}]>>,
        embedding |-> <<3, 4>>],
       [name |-> "b", displayName |-> {"b"}, aiSummary |-> {"read"},
        aiUseCases |-> << >>,
        toolDescriptions |-> <<[name |-> {"b"}, description |-> {"read"}]>>,
        embedding |-> <<-1, 0>>],
       [name |-> "c", displayName |-> {"c"}, aiSummary |-> {"files"},
        aiUseCases |-> <<{"files"}>>,
        toolDescriptions |-> << >>,
        embedding |-> << >>],
       [name |-> "d", displayName |-> {"d"}, aiSummary |-> {"d"},
        aiUseCases |-> << >>,
        toolDescriptions |-> << >>,
        embedding |-> <<1, 0>>] >>

\* the same file with its servers in the opposite order
ReversedIndex ==
    [i \in 1..Len(EnhancedIndex) |-> EnhancedIndex[Len(EnhancedIndex) + 1 - i]]

\* enhanced-index.json is not there, or does not parse
Missing == [ok |-> FALSE, servers |-> << >>]

\* what loadEnhancedIndex may find
IndexFiles == {[ok |-> TRUE, servers |-> EnhancedIndex],
               [ok |-> TRUE, servers |-> ReversedIndex],
               Missing}

\* generateQueryEmbedding throws
ApiError == [ok |-> FALSE, embedding |-> << >>]

\* what generateQueryEmbedding may give
EmbeddingReplies ==
    {[ok |-> TRUE, embedding |-> e] : e \in QueryEmbeddings} \cup {ApiError}

RECURSIVE Sum(_, _)
\* the sum of f[i] over i in 1..n
Sum(f, n) == IF n = 0 THEN 0 ELSE f[n] + Sum(f, n - 1)

dot(a, b) == Sum([i \in 1..Len(a) |-> a[i] * b[i]], Len(a))

\* Math.sqrt of a perfect square
sqrt(n) == CHOOSE r \in 0..n : r * r = n

\* cosineSimilarity of two vectors of equal length, in hundredths
cosineSimilarity(a, b) ==
    LET magnitudeA == sqrt(dot(a, a))
        magnitudeB == sqrt(dot(b, b))
    IN  IF magnitudeA = 0 \/ magnitudeB = 0 THEN 0
        ELSE IF dot(a, b) >= 0
             THEN (dot(a, b) * 100) \div (magnitudeA * magnitudeB)
             ELSE 0 - ((0 - dot(a, b)) * 100) \div (magnitudeA * magnitudeB)

Count(f, n) == Cardinality({i \in 1..n : f[i]})

\* the score searchMCPsTextBased gives a server
textScore(server, q) ==
      (IF server.name = q THEN 100 ELSE 0)
    + (IF q \in server.displayName THEN 50 ELSE 0)
    + (IF q \in server.aiSummary THEN 40 ELSE 0)
    + 30 * Count([i \in 1..Len(server.aiUseCases) |-> q \in server.aiUseCases[i]],
                 Len(server.aiUseCases))
    + 20 * Count([i \in 1..Len(server.toolDescriptions) |->
                      q \in server.toolDescriptions[i].name],
                 Len(server.toolDescriptions))
    + 15 * Count([i \in 1..Len(server.toolDescriptions) |->
                      q \in server.toolDescriptions[i].description],
                 Len(server.toolDescriptions))
    + (IF LongWord(q) /\ q \in server.aiSummary THEN 10 ELSE 0)

RECURSIVE sortDescending(_)
\* Array.prototype.sort((a, b) => b.key - a.key): stable, largest key first
sortDescending(s) ==
    IF s = << >> THEN << >>
    ELSE LET i == CHOOSE k \in 1..Len(s) :
                     /\ \A j \in 1..Len(s) : s[j].key <= s[k].key
                     /\ \A j \in 1..(k - 1) : s[j].key < s[k].key
         IN  <<s[i]>> \o sortDescending(RemoveAt(s, i))

\* slice(0, lim)
slice(s, lim) == SubSeq(s, 1, IF lim < Len(s) THEN lim ELSE Len(s))

\* the embedding path of searchMCPs, after the query embedding has arrived
searchEmbeddings(index, queryEmbedding, lim) ==
    LET withEmbedding == SelectSeq(index, LAMBDA sv : Len(sv.embedding) # 0)
        results == [i \in 1..Len(withEmbedding) |->
                       [name |-> withEmbedding[i].name,
                        key |-> cosineSimilarity(queryEmbedding,
                                                 withEmbedding[i].embedding)]]
        topResults == slice(sortDescending(results), lim)
    IN  [i \in 1..Len(topResults) |->
            [name |-> topResults[i].name,
             distance |-> 100 - topResults[i].key,
             similarity |-> topResults[i].key]]

\* searchMCPsTextBased
searchMCPsTextBased(index, q, lim) ==
    LET scored == [i \in 1..Len(index) |->
                      [name |-> index[i].name,
                       key |-> textScore(index[i], q)]]
        top == slice(sortDescending(SelectSeq(scored, LAMBDA sv : sv.key > 0)), lim)
    IN  [i \in 1..Len(top) |->
            [name |-> top[i].name,
             distance |-> IF 100 - top[i].key > 0 THEN 100 - top[i].key ELSE 0,
             similarity |-> IF top[i].key < 100 THEN top[i].key ELSE 100]]

\* cosineSimilarity throws: the vectors differ in length
Throws(index, queryEmbedding) ==
    \E i \in 1..Len(index) :
        /\ Len(index[i].embedding) # 0
        /\ Len(index[i].embedding) # Len(queryEmbedding)

\* the call of searchMCPsTextBased: its results, or 'Search failed' when
\* loadEnhancedIndex throws
textBased(index, q, lim, path) ==
    IF ~index.ok
    THEN [pc |-> "done", index |-> index, query |-> q, limit |-> lim,
          path |-> "failed", results |-> << >>]
    ELSE [pc |-> "done", index |-> index, query |-> q, limit |-> lim,
          path |-> path, results |-> searchMCPsTextBased(index.servers, q, lim)]

\* searchMCPs without OPENAI_API_KEY: the text search
SearchText(index, q, lim) ==
    /\ search.pc = "idle"
    /\ search' = textBased(index, q, lim, "text")
    /\ UNCHANGED <<routerVars, httpVars, sse, stored, lst, call, cli, creating, shutdown, disp>>

\* searchMCPs with OPENAI_API_KEY: the embedding search, and the text search
\* when loadEnhancedIndex, generateQueryEmbedding or cosineSimilarity throws
SearchEmbedding(index, q, reply, lim) ==
    /\ search.pc = "idle"
    /\ search' = IF \/ ~index.ok
                    \/ ~reply.ok
                    \/ Throws(index.servers, reply.embedding)
                 THEN textBased(index, q, lim, "fallback")
                 ELSE [pc |-> "done", index |-> index, query |-> q,
                       limit |-> lim, path |-> "embedding",
                       results |-> searchEmbeddings(index.servers, reply.embedding,
                                                    lim)]
    /\ UNCHANGED <<routerVars, httpVars, sse, stored, lst, call, cli, creating, shutdown, disp>>

\* the results are returned
SearchReturn ==
    /\ search.pc = "done"
    /\ search' = NoSearch
    /\ UNCHANGED <<routerVars, httpVars, sse, stored, lst, call, cli, creating, shutdown, disp>>

NextSearch ==
    \/ \E index \in IndexFiles, q \in Queries, lim \in 0..MaxLimit :
          SearchText(index, q, lim)
    \/ \E index \in IndexFiles, q \in Queries,
          reply \in EmbeddingReplies, lim \in 0..MaxLimit :
          SearchEmbedding(index, q, reply, lim)
    \/ SearchReturn

SpecSearch == Init /\ [][NextSearch]_vars

\* C24: in every result list of searchMCPs each similarity is within [0,1],
\* each distance is 1 - similarity, and the similarities do not increase
\* along the list.
C24_ScoresBoundedAndOrdered ==
    search.pc = "done" =>
        /\ \A i \in 1..Len(search.results) :
              /\ search.results[i].similarity >= 0
              /\ search.results[i].similarity <= 100
              /\ search.results[i].distance = 100 - search.results[i].similarity
        /\ \A i \in 1..(Len(search.results) - 1) :
              search.results[i].similarity >= search.results[i + 1].similarity

\* C25: the step in which add_new_mcp admits a server closes no backend
\* client but that of the evicted server.
C25_AdmissionClosesOnlyEvicted ==
    [][(pc["h"] = "addGap" /\ lastOp'.result = "success")
       => \A c \in Range(connectedClients) \cap openClients :
             c.name # lastOp'.evicted => c \in openClients']_vars

----------------------------------------------------------------------------
\* The tools/list and tools/call handlers of mcp-proxy.ts step by step: each
\* is cut at its backend requests, so that one runs while the other waits.

routeFrame == UNCHANGED <<disk, watchPending, config, connectedClients,
                          promptToClientMap, pc, harg, hcfg, new, cause, loaded,
                          notifications, mutations, limit, installedGen,
                          notifiedGen, touched, admitted, committed, wrun,
                          lastOp, httpVars, sse, stored, search, cli, creating, shutdown, disp>>

\* tools/list: toolToClientMap.clear(), then the first backend request; with
\* no client connected the handler answers at once
ListBegin ==
    /\ lst.pc = "idle"
    /\ toolToClientMap' = EmptyMap
    /\ lst' = IF connectedClients = << >>
              THEN [pc |-> "done", arr |-> << >>, i |-> 0, tools |-> BuiltInTools,
                    before |-> toolToClientMap]
              ELSE [pc |-> "ask", arr |-> connectedClients, i |-> 1, tools |-> {},
                    before |-> toolToClientMap]
    /\ UNCHANGED <<openClients, tempMcpQueue, call>>
    /\ routeFrame

\* a variant in which a failed request throws away the tools gathered so far
pushToolsOrReset(allTools, connectedClient, answers) ==
    IF answers THEN allTools \cup {connectedClient.name} ELSE {}

\* allTools.push(...toolsWithSource) when the request gave a result; the
\* catch block only logs
pushTools(allTools, connectedClient, answers) ==
    IF answers THEN allTools \cup {connectedClient.name} ELSE allTools

\* tools/list: the client asked answers and its tool is routed to it, or
\* its request fails and it is skipped; then the next client is asked, or
\* the built-in tools are pushed and the handler answers
ListStep ==
    /\ lst.pc = "ask"
    /\ LET connectedClient == lst.arr[lst.i]
           answers == connectedClient \in openClients
           allTools == pushTools(lst.tools, connectedClient, answers)
       IN  /\ toolToClientMap' =
                 IF answers
                 THEN [toolToClientMap EXCEPT ![connectedClient.name] = connectedClient]
                 ELSE toolToClientMap
           /\ lst' = IF lst.i = Len(lst.arr)
                     THEN [lst EXCEPT !.pc = "done",
                                      !.tools = allTools \cup BuiltInTools]
                     ELSE [lst EXCEPT !.i = @ + 1, !.tools = allTools]
    /\ UNCHANGED <<openClients, tempMcpQueue, call>>
    /\ routeFrame

ListReturn ==
    /\ lst.pc = "done"
    /\ lst' = NoList
    /\ UNCHANGED <<toolToClientMap, openClients, tempMcpQueue, call>>
    /\ routeFrame

\* how a backend request may settle: with a result, with error -32000
\* 'Connection closed', or with another error; a closed client gives no result
Outcomes(client) ==
    IF client \in openClients THEN {"result", "closed", "other"}
    ELSE {"closed", "other"}

\* a variant that retries after every failure
retriesAnyFailure(attempt, outcome) == outcome # "result" /\ attempt < maxRetries

\* the catch block goes on to the next attempt
retries(attempt, outcome) == outcome = "closed" /\ attempt < maxRetries

\* tools/call of a tool of a backend: the lookup, heatUpMcpServer and the
\* first request
CallBegin(t) ==
    /\ call.pc = "idle"
    /\ LET clientForTool == toolToClientMap[t]
       IN  IF clientForTool = NoClient
           THEN /\ call' = [NoCall EXCEPT !.pc = "done", !.name = t,
                                          !.result = "unknown-tool"]
                /\ UNCHANGED tempMcpQueue
           ELSE /\ call' = [NoCall EXCEPT !.pc = "wait", !.name = t,
                                          !.client = clientForTool, !.tries = 1]
                /\ tempMcpQueue' =
                      IF clientForTool.name \in Range(readFullConfig(disk).servers)
                      THEN updateActiveMcpQueue(clientForTool.name,
                                                readFullConfig(disk)).queue
                      ELSE tempMcpQueue
    /\ UNCHANGED <<toolToClientMap, openClients, lst>>
    /\ routeFrame

\* the backend request settles: the result is returned, or the error is
\* thrown, or the handler sleeps before the next attempt
CallSettles(outcome) ==
    /\ call.pc = "wait"
    /\ outcome \in Outcomes(call.client)
    /\ openClients' = IF outcome = "closed" THEN openClients \ {call.client}
                      ELSE openClients
    /\ call' = [call EXCEPT
                  !.closes = IF outcome = "closed" THEN @ + 1 ELSE @,
                  !.pc = IF retries(call.attempt, outcome) THEN "sleep" ELSE "done",
                  !.result = IF retries(call.attempt, outcome) THEN None
                             ELSE IF outcome = "result" THEN "forwarded"
                             ELSE IF outcome = "closed" THEN "connection-closed"
                             ELSE "error"]
    /\ UNCHANGED <<toolToClientMap, tempMcpQueue, lst>>
    /\ routeFrame

\* the timer fires: attempt++ and the request is sent again
CallRetry ==
    /\ call.pc = "sleep"
    /\ call' = [call EXCEPT !.pc = "wait", !.attempt = @ + 1, !.tries = @ + 1]
    /\ UNCHANGED <<toolToClientMap, openClients, tempMcpQueue, lst>>
    /\ routeFrame

CallReturn ==
    /\ call.pc = "done"
    /\ call' = NoCall
    /\ UNCHANGED <<toolToClientMap, openClients, tempMcpQueue, lst>>
    /\ routeFrame

NextRoutes ==
    \/ ListBegin
    \/ ListStep
    \/ ListReturn
    \/ \E t \in CallNames : CallBegin(t)
    \/ \E outcome \in {"result", "closed", "other"} : CallSettles(outcome)
    \/ CallRetry
    \/ CallReturn

SpecRoutes == Init /\ [][NextRoutes]_vars

\* a backend request settles and a timer fires
FairRoutes ==
    /\ WF_vars(\E outcome \in {"result", "closed", "other"} : CallSettles(outcome))
    /\ WF_vars(CallRetry)

SpecRoutesFair == SpecRoutes /\ FairRoutes

\* C26: a tools/call looked up while a tools/list is in progress is not
\* answered 'Unknown tool' when its tool had a route before the tools/list
\* started and a connected backend that answers still exposes it.
C26_ListReplacesMapAtomically ==
    [][(/\ call.pc = "idle" /\ call'.pc # "idle"
        /\ lst.pc = "ask"
        /\ lst.before[call'.name] # NoClient
        /\ \E c \in Answering : c.name = call'.name)
       => call'.result # "unknown-tool"]_vars

\* C27: a tools/call forwarded through a route-map entry goes to a client
\* that is a member of connectedClients and has not been cleaned up.
C27_RouteTargetIsConnected ==
    lastOp.result \in {"forwarded", "connection-closed"}
       => toolToClientMap[lastOp.name] \in Range(connectedClients) \cap openClients

\* C30: a forwarded tools/call sends at most maxRetries + 1 requests, sends
\* another only after a failure with 'Connection closed', surfaces any other
\* failure with the request that met it as its last, gives up with the last
\* 'Connection closed' error after the third, and always ends.
C30_BoundedRetries ==
    /\ [](/\ call.tries <= maxRetries + 1
          /\ call.tries <= call.closes + 1
          /\ call.pc = "sleep" => call.closes = call.tries
          /\ call.pc = "done" =>
                /\ call.result \in {"unknown-tool", "forwarded",
                                    "connection-closed", "error"}
                /\ call.result \in {"forwarded", "error"}
                      => call.tries = call.closes + 1
                /\ call.result = "connection-closed"
                      => call.tries = maxRetries + 1 /\ call.closes = call.tries)
    /\ (call.pc \in {"wait", "sleep"} ~> call.pc = "done")

\* a call has given up after three requests that all met a closed connection
C30_Witness ==
    /\ call.pc = "done"
    /\ call.result = "connection-closed"
    /\ call.tries = maxRetries + 1

----------------------------------------------------------------------------
\* `mcp-manager add <server-name>` (mcp-manager-cli.ts): addNewMcp in a
\* process of its own, beside the router's add_new_mcp handler.

\* the servers the command is run for
CliNames == {"C", "D"}

\* the result of addNewMcp for a name and the config it read
addResult(name, cfg) ==
    IF name \notin Registry THEN "not-found"
    ELSE IF name \in Range(cfg.servers) THEN "already-exists"
    ELSE IF ~hasRequiredAuth(name) THEN "needs-auth"
    ELSE "success"

\* the config addNewMcp writes for a name and the config it read
addWrites(name, cfg) ==
    IF addResult(name, cfg) = "already-exists"
    THEN updateActiveMcpQueue(name, cfg)
    ELSE updateActiveMcpQueue(name, addServerToConfig(name, cfg))

\* addNewMcp up to the await of the registry read: the file is read
CliAddRead(n) ==
    /\ Running
    /\ cli.pc = "idle"
    /\ mutations < limit
    /\ cli' = [pc |-> "gap", name |-> n, cfg |-> readFullConfig(disk),
               result |-> None]
    /\ UNCHANGED <<routerVars, httpVars, sse, stored, search, lst, call,
                   creating, shutdown, disp>>

\* addNewMcp after the registry read (threw: the read threw and the catch
\* branch writes the config back): the checks, and the write when the
\* server is added or is there already
CliAddEnds(threw) ==
    /\ Running
    /\ cli.pc = "gap"
    /\ LET result == IF threw THEN "error" ELSE addResult(cli.name, cli.cfg)
           cfg == IF threw THEN cli.cfg ELSE addWrites(cli.name, cli.cfg)
           changed == cfg.servers # loadConfig(disk).servers
       IN  /\ cli' = [cli EXCEPT !.pc = "done", !.result = result]
           /\ IF result \in {"error", "success", "already-exists"}
              THEN /\ disk' = stringify(cfg)
                   /\ watchPending' = TRUE
                   /\ mutations' = IF changed THEN mutations + 1 ELSE mutations
                   /\ committed' = IF changed THEN committed + 1 ELSE committed
                   /\ admitted' = None
                   /\ touched' = IF threw THEN touched ELSE None
              ELSE UNCHANGED <<disk, watchPending, mutations, committed,
                               admitted, touched>>
    /\ Commit(Mem)
    /\ UNCHANGED <<limit, tempMcpQueue, harg, hcfg, wrun, lastOp>>
    /\ UNCHANGED <<httpVars, sse, stored, search, lst, call, creating, shutdown, disp>>

\* the command prints the result and exits
CliReturn ==
    /\ cli.pc = "done"
    /\ cli' = NoCli
    /\ UNCHANGED <<routerVars, httpVars, sse, stored, search, lst, call,
                   creating, shutdown, disp>>

\* the router with two servers, and the command run beside it
InitTwoAdds ==
    StartWith(MaxMutations,
              {stringify([EmptyConfig EXCEPT !.servers = <<"A", "B">>,
                                             !.queue = <<"A", "B">>])})

NextTwoAdds ==
    \/ \E n \in AddNames : AddRead(n)
    \/ AddThrows
    \/ AddNotFound
    \/ AddAlreadyExists
    \/ AddNeedsAuth
    \/ AddSucceeds
    \/ \E s \in Slots : ReloadLoad(s)
    \/ \E s \in Slots : ReloadInstall(s)
    \/ \E s \in Slots : Return(s)
    \/ WatchReloads
    \/ WatchSkips
    \/ \E n \in CliNames : CliAddRead(n)
    \/ \E threw \in BOOLEAN : CliAddEnds(threw)
    \/ CliReturn

SpecTwoAdds == InitTwoAdds /\ [][NextTwoAdds]_vars

\* C28: when the handler's add_new_mcp and the command's add have both
\* admitted a server, two distinct ones, both servers are in the servers
\* array and in active_mcp_queue of the file: the file is what the two
\* operations give one after the other.
C28_OverlappingAddsSerialized ==
    (/\ lastOp.result = "success"
     /\ cli.result = "success"
     /\ lastOp.name # cli.name)
    => LET cfg == readFullConfig(disk)
       IN  /\ {lastOp.name, cli.name} \subseteq Range(cfg.servers)
           /\ {lastOp.name, cli.name} \subseteq Range(cfg.queue)

\* no request, no watcher run and no change event is in progress
Quiet == (\A s \in Slots : pc[s] = "idle") /\ ~watchPending

\* C29: once no reload is in progress and no change event is pending, every
\* open backend client is a member of connectedClients.
C29_NoOrphanClients == Quiet => openClients \subseteq Range(connectedClients)

----------------------------------------------------------------------------
\* C31: a retried tools/call request is sent to a client whose transport is
\* open: the connection that closed has been made again before the retry.
C31_RetryOverLiveConnection ==
    (call.pc = "wait" /\ call.attempt > 0) => call.client \in openClients

----------------------------------------------------------------------------
\* createClients of client.ts step by step: the loop over the servers, cut
\* at `await client.connect(transport)` and at `await sleep(waitFor)`.

\* the longest servers argument
MaxServers == 3

ConnectNames == {"A", "B"}

\* the servers arguments: names may repeat
ServerLists == UNION {[1..n -> ConnectNames] : n \in 0..MaxServers}

\* const retries = 3
connectRetries == 3

\* a variant that allows one more attempt
retryOnceMore(count) == count <= connectRetries

\* retry = (count < retries)
retry(count) == count < connectRetries

\* the for loop goes on to the next server, or createClients returns
nextServer(c) ==
    IF c.i = Len(c.servers) THEN [c EXCEPT !.pc = "done"]
    ELSE [c EXCEPT !.pc = "connect", !.i = @ + 1, !.count = 0,
                   !.seen = @ \cup {c.i + 1}]

creatingFrame == UNCHANGED <<routerVars, httpVars, sse, stored, search, lst,
                             call, cli, shutdown, disp>>

\* createClients(servers) up to the first connect
CreateClientsBegin(servers) ==
    /\ creating.pc = "idle"
    /\ creating' =
          IF servers = << >> THEN [NoCreating EXCEPT !.pc = "done"]
          ELSE [NoCreating EXCEPT !.pc = "connect", !.servers = servers,
                                  !.i = 1, !.seen = {1},
                                  !.tried = [j \in 1..Len(servers) |-> 0]]
    /\ creatingFrame

\* one turn of the while loop: createClient gives no client and the loop
\* breaks; or the connect succeeds, the client is pushed and the loop
\* breaks; or the connect fails, count is raised and the loop sleeps before
\* the next try or gives the server up
CreateClientsAttempt(outcome) ==
    /\ creating.pc = "connect"
    /\ LET c == creating
       IN  creating' =
             IF outcome = "no-client"
             THEN nextServer([c EXCEPT !.bad = @ \cup {c.i}])
             ELSE IF outcome = "connected"
             THEN nextServer([c EXCEPT !.tried[c.i] = @ + 1,
                                       !.clients = Append(@, c.servers[c.i]),
                                       !.from = Append(@, c.i)])
             ELSE LET failed == [c EXCEPT !.tried[c.i] = @ + 1,
                                          !.count = @ + 1]
                  IN  IF retry(failed.count)
                      THEN [failed EXCEPT !.pc = "sleep"]
                      ELSE nextServer(failed)
    /\ creatingFrame

\* sleep(waitFor) is over
CreateClientsWake ==
    /\ creating.pc = "sleep"
    /\ creating' = [creating EXCEPT !.pc = "connect"]
    /\ creatingFrame

\* return clients
CreateClientsReturn ==
    /\ creating.pc = "done"
    /\ creating' = NoCreating
    /\ creatingFrame

NextConnect ==
    \/ \E servers \in ServerLists : CreateClientsBegin(servers)
    \/ \E outcome \in {"no-client", "connected", "failed"} :
          CreateClientsAttempt(outcome)
    \/ CreateClientsWake
    \/ CreateClientsReturn

SpecConnect == Init /\ [][NextConnect]_vars

\* C32: createClients attempts the connect of a server at most 3 times and
\* not again once it has succeeded; when it returns, it has reached every
\* server, a server without a client is one that failed 3 attempts (or for
\* which no client could be made), and the clients returned are the servers
\* that connected, in config order, one client per server entry.
C32_CreateClientsBounded ==
    LET c == creating
        n == Len(c.servers)
    IN  /\ \A j \in 1..n : c.tried[j] <= connectRetries
        /\ c.pc \in {"connect", "sleep"} => c.i \notin Range(c.from)
        /\ c.pc = "done" =>
              /\ c.seen = 1..n
              /\ \A j \in 1..n :
                    j \notin Range(c.from)
                       => c.tried[j] = connectRetries \/ j \in c.bad
              /\ \A j \in Range(c.from) : c.tried[j] >= 1
              /\ Len(c.clients) = Len(c.from)
              /\ \A k \in 1..Len(c.from) : c.clients[k] = c.servers[c.from[k]]
              /\ \A k, l \in 1..Len(c.from) : k < l => c.from[k] < c.from[l]

\* createClients has returned without a server that failed all its attempts
\* and with a later server that connected on a retry
C32_Witness ==
    /\ creating.pc = "done"
    /\ \E j, l \in 1..Len(creating.servers) :
          /\ j < l
          /\ creating.tried[j] = connectRetries
          /\ j \notin Range(creating.from)
          /\ l \in Range(creating.from)
          /\ creating.tried[l] > 1

----------------------------------------------------------------------------
\* SIGINT / SIGTERM in the streaming HTTP entry point.  Two listeners are
\* registered: the one of createServer (mcp-proxy.ts) and gracefulShutdown
\* (http-streaming.ts).  The signal runs each up to its first await; both
\* then go on at their awaits, in any order.

shutdownFrame == UNCHANGED <<disk, watchPending, mutations, limit, admitted,
                             handlerVars, lastOp, req, sse, stored, search,
                             lst, call, cli, creating, disp>>

\* cleanup() after `await watcher.close()`: the cleanup of every member of
\* connectedClients is called
cleanupClients(m) == [m EXCEPT !.open = @ \ Range(m.cc)]

\* an upstream transport is open while a backend client is being closed
closesUnderLiveSession ==
    OpenTransports # {} /\ Range(connectedClients) \cap openClients # {}

\* the signal is delivered.  The proxy's listener calls cleanup(), which
\* calls watcher.close() and waits.  gracefulShutdown calls
\* httpServer.close(), then sharedTransport.close() when there is a
\* transport (its onclose sets sharedTransport to null) and waits, and
\* otherwise calls cleanup() and waits for watcher.close().  The two touch
\* different state, so either order of the listeners gives this state.
Signal ==
    /\ Running
    /\ shutdown = NoShutdown
    /\ shutdown' = [shutdown EXCEPT
                      !.proxy = "watcherWait",
                      !.graceful = IF sharedTransport # 0 THEN "closeWait"
                                   ELSE "watcherWait"]
    /\ IF sharedTransport # 0
       THEN /\ transportState' = closeTransport(transportState, sharedTransport)
            /\ sharedTransport' = 0
       ELSE UNCHANGED <<sharedTransport, transportState>>
    /\ Commit(Mem)
    /\ shutdownFrame

\* the proxy's listener after `await watcher.close()`
ProxyCleanup ==
    /\ Running
    /\ shutdown.proxy = "watcherWait"
    /\ shutdown' = [shutdown EXCEPT !.proxy = "cleaning",
                                    !.live = @ \/ closesUnderLiveSession]
    /\ Commit(cleanupClients(Mem))
    /\ UNCHANGED <<sharedTransport, transportState>>
    /\ shutdownFrame

\* the proxy's listener after `await cleanup()`: process.exit(0)
ProxyExit ==
    /\ Running
    /\ shutdown.proxy = "cleaning"
    /\ shutdown' = [shutdown EXCEPT !.proxy = "done", !.exited = TRUE]
    /\ Commit(Mem)
    /\ UNCHANGED <<sharedTransport, transportState>>
    /\ shutdownFrame

\* gracefulShutdown after `await sharedTransport.close()`: cleanup() is
\* called and waits for watcher.close()
GracefulClosed ==
    /\ Running
    /\ shutdown.graceful = "closeWait"
    /\ shutdown' = [shutdown EXCEPT !.graceful = "watcherWait"]
    /\ Commit(Mem)
    /\ UNCHANGED <<sharedTransport, transportState>>
    /\ shutdownFrame

\* gracefulShutdown's cleanup() after `await watcher.close()`
GracefulCleanup ==
    /\ Running
    /\ shutdown.graceful = "watcherWait"
    /\ shutdown' = [shutdown EXCEPT !.graceful = "cleaning",
                                    !.live = @ \/ closesUnderLiveSession]
    /\ Commit(cleanupClients(Mem))
    /\ UNCHANGED <<sharedTransport, transportState>>
    /\ shutdownFrame

\* gracefulShutdown after `await cleanup()`: process.exit(0)
GracefulExit ==
    /\ Running
    /\ shutdown.graceful = "cleaning"
    /\ shutdown' = [shutdown EXCEPT !.graceful = "done", !.exited = TRUE]
    /\ Commit(Mem)
    /\ UNCHANGED <<sharedTransport, transportState>>
    /\ shutdownFrame

\* POST /mcp with an initialize body arrives before the signal
SessionInitialize(auth) ==
    /\ shutdown = NoShutdown
    /\ Receive("r1", "initialize", auth)

\* a request in progress goes on at its await while the process lives
SessionResumes ==
    /\ ~shutdown.exited
    /\ \/ InitCreate("r1")
       \/ InitHandle("r1")
       \/ Respond("r1")

\* the router serving one upstream client, its config file changed by
\* another writer, until a signal ends the process.  httpServer.close()
\* lets the requests in progress finish.
NextShutdown ==
    \/ \E n \in ExternalAdds : ExternalAddServer(n)
    \/ WatchReloads
    \/ \E s \in Slots : ReloadLoad(s)
    \/ \E s \in Slots : ReloadInstall(s)
    \/ \E s \in Slots : Return(s)
    \/ \E auth \in BOOLEAN : SessionInitialize(auth)
    \/ SessionResumes
    \/ Signal
    \/ ProxyCleanup
    \/ ProxyExit
    \/ GracefulClosed
    \/ GracefulCleanup
    \/ GracefulExit

SpecShutdown == Init /\ [][NextShutdown]_vars

\* C33: during a shutdown no backend client is closed while an upstream
\* transport is open, and when the process exits no backend client is open.
C33_ShutdownOrder ==
    /\ ~shutdown.live
    /\ shutdown.exited => openClients = {}

----------------------------------------------------------------------------
\* C34: in a tools/list fan-out, a backend whose request fails adds nothing
\* to the result and takes nothing from it, a backend that answers has its
\* tools in the result, and the handler goes on to the next backend and
\* answers with the built-in tools at the end: it never fails.
C34_FailedBackendExcluded ==
    [][(lst.pc = "ask" /\ lst' # lst)
       => LET connectedClient == lst.arr[lst.i]
          IN  /\ lst'.pc \in {"ask", "done"}
              /\ lst.tools \subseteq lst'.tools
              /\ connectedClient \notin openClients
                    => lst'.tools \ BuiltInTools = lst.tools
              /\ connectedClient \in openClients
                    => connectedClient.name \in lst'.tools
              /\ lst'.pc = "done" => BuiltInTools \subseteq lst'.tools]_vars

\* a tools/list has answered with the tools of one backend and without those
\* of another whose transport was closed
C34_Witness ==
    /\ lst.pc = "done"
    /\ \E c, d \in Range(lst.arr) :
          /\ c \notin openClients
          /\ c.name \notin lst.tools
          /\ d.name \in lst.tools

----------------------------------------------------------------------------
\* the servers of an index that have an embedding
Embedded(index) ==
    {index[i].name : i \in {k \in 1..Len(index) : Len(index[k].embedding) # 0}}

\* C37: searchMCPs never fails: without a key, and whenever a step of the
\* embedding path throws, it returns the results of the keyword search; and
\* on the embedding path only servers that have an embedding are scored.
C37_FallbackInsteadOfFailure ==
    search.pc = "done" =>
        /\ search.path # "failed"
        /\ search.path \in {"text", "fallback"}
              => search.results = searchMCPsTextBased(search.index.servers,
                                                      search.query, search.limit)
        /\ search.path = "embedding"
              => \A i \in 1..Len(search.results) :
                    search.results[i].name \in Embedded(search.index.servers)

\* the place of a server name in the lexicographic order
NameOrder(n) == CHOOSE k \in 1..4 : <<"a", "b", "c", "d">>[k] = n

\* C38: in the results of a search a higher score comes before a lower one,
\* and of two servers with the same score the one whose name is smaller
\* comes first, whatever the order of the servers in the index file.  The
\* names are single letters; their order is that of the alphabet.
C38_TieBreakByName ==
    search.pc = "done" =>
        \A i \in 1..(Len(search.results) - 1) :
            LET r == search.results[i]
                t == search.results[i + 1]
            IN  \/ r.similarity > t.similarity
                \/ r.similarity = t.similarity /\ NameOrder(r.name) < NameOrder(t.name)

----------------------------------------------------------------------------
\* C36: when add_new_mcp answers with success, every member of
\* connectedClients has its tool routed to it; and from that answer on, as
\* long as config.json is not written again, the tool of the server just
\* added is routed to a connected client that is open.
C36_RoutesReadyAfterAdd ==
    /\ (pc["h"] = "done" /\ lastOp.result = "success")
          => \A c \in Range(connectedClients) : toolToClientMap[c.name] = c
    /\ admitted # None
          => toolToClientMap[admitted] \in Range(connectedClients) \cap openClients

----------------------------------------------------------------------------
\* add_new_mcp as the only writer of config.json: the handler's calls of
\* addNewMcp one after the other, with the reloads they and the watcher start.

NextAdds ==
    \/ \E n \in AddNames : AddRead(n)
    \/ AddThrows
    \/ AddNotFound
    \/ AddAlreadyExists
    \/ AddNeedsAuth
    \/ AddSucceeds
    \/ \E s \in Slots : ReloadLoad(s)
    \/ \E s \in Slots : ReloadInstall(s)
    \/ \E s \in Slots : Return(s)
    \/ WatchReloads
    \/ WatchSkips

SpecAdds == Init /\ [][NextAdds]_vars

\* C39: with addNewMcp the only writer, starting from a file whose
\* active_mcp_queue lists the names of its servers once each, the queue of
\* the file never holds a name twice and always holds exactly the names of
\* the file's servers.
C39_QueueMatchesServers ==
    LET cfg == readFullConfig(disk)
    IN  /\ NoDuplicates(cfg.queue)
        /\ Range(cfg.queue) = Range(cfg.servers)

\* an add_new_mcp has admitted a server and evicted another, and the file
\* has been written
C39_Witness ==
    /\ lastOp.result = "success"
    /\ lastOp.evicted # None
    /\ lastOp.name \in Range(readFullConfig(disk).queue)

\* ---------------------------------------------------------------------------
\* Backends that list several tools: the route map built by tools/list and
\* the order in which tools/call decides who handles a name
\* (mcp-proxy.ts, ListTools handler 120-160 and CallTool handler 204-380)
\* ---------------------------------------------------------------------------

\* most backends connected at once in this part of the model
MaxBackends == 2

\* the names of the connected clients in the order of connectedClients; only
\* the order matters to the route map, so the client at position i is called
\* BackendOrder[i]
BackendOrder == <<"A", "B", "C">>

BackendNames == Range(BackendOrder)

\* the names a backend may list: an ordinary tool and the two names the
\* router also uses for its own tools
ToolNames == {"T"} \cup BuiltInTools

\* the connected clients in the order of connectedClients, each with the
\* tools its tools/list answers
BackendLists ==
    { b \in UNION {[1..n -> [name : BackendNames, tools : SUBSET ToolNames]]
                      : n \in 0..MaxBackends} :
        \A i \in DOMAIN b : b[i].name = BackendOrder[i] }

\* result.tools.map(tool => toolToClientMap.set(tool.name, connectedClient)):
\* Map.set replaces the entry of a name that is already there
setAll(map, client) ==
    [t \in ToolNames |-> IF t \in client.tools THEN client.name ELSE map[t]]

\* a CallTool handler that looks the route up before the built-in names
dispatchRouteFirst(name, map) ==
    IF map[name] # None THEN map[name]
    ELSE IF name \in BuiltInTools THEN "built-in"
    ELSE "unknown-tool"

\* the CallTool handler: `if (name === 'add_new_mcp')` and
\* `if (name === 'search_mcps')` return or throw inside their branch; only
\* the names that pass both reach toolToClientMap.get(name)
dispatch(name, map) ==
    IF name = "add_new_mcp" THEN "built-in"
    ELSE IF name = "search_mcps" THEN "built-in"
    ELSE IF map[name] = None THEN "unknown-tool"
    ELSE map[name]

dispFrame == UNCHANGED <<routerVars, httpVars, sse, stored, search, lst, call,
                         cli, creating, shutdown>>

\* the proxy starts with `backends` as its connected clients
BackendsConnected(backends) ==
    /\ disp.pc = "idle"
    /\ disp' = [disp EXCEPT !.pc = "connected", !.backends = backends]
    /\ dispFrame

\* tools/list arrives: toolToClientMap.clear(), then the loop over the
\* connected clients starts
FanBegin ==
    /\ disp.pc \in {"connected", "ready"}
    /\ disp' = [disp EXCEPT !.pc = IF Len(disp.backends) = 0 THEN "ready" ELSE "ask",
                            !.i = IF Len(disp.backends) = 0 THEN 0 ELSE 1,
                            !.answered = {},
                            !.map = [t \in ToolNames |-> None]]
    /\ dispFrame

\* one client is asked for its tools: its answer is put into the map, its
\* failure is caught and leaves the map as it is
FanStep(answers) ==
    /\ disp.pc = "ask"
    /\ disp' = [disp EXCEPT !.map = IF answers
                                        THEN setAll(disp.map, disp.backends[disp.i])
                                        ELSE disp.map,
                            !.answered = IF answers THEN @ \cup {disp.i} ELSE @,
                            !.i = IF disp.i < Len(disp.backends)
                                      THEN disp.i + 1 ELSE 0,
                            !.pc = IF disp.i < Len(disp.backends)
                                       THEN "ask" ELSE "ready"]
    /\ dispFrame

\* tools/call for `name` arrives after a listing
Dispatch(name) ==
    /\ disp.pc = "ready"
    /\ disp' = [disp EXCEPT !.last = [name |-> name,
                                      by |-> dispatch(name, disp.map)]]
    /\ dispFrame

NextDispatch ==
    \/ \E backends \in BackendLists : BackendsConnected(backends)
    \/ FanBegin
    \/ \E answers \in BOOLEAN : FanStep(answers)
    \/ \E name \in ToolNames : Dispatch(name)

SpecDispatch == Init /\ [][NextDispatch]_vars

\* the backends that listed tool t in the last listing, by position
Exposing(t) == {i \in disp.answered : t \in disp.backends[i].tools}

\* C35: when several backends list a tool of the same name, the route of that
\* name after the listing is the first of them in the order of the connected
\* clients
C35_FirstBackendWins ==
    disp.pc = "ready" =>
        \A t \in ToolNames :
            Exposing(t) # {} =>
                disp.map[t] =
                    disp.backends[CHOOSE i \in Exposing(t) :
                                      \A j \in Exposing(t) : i <= j].name

\* C40: a tools/call for add_new_mcp or search_mcps is handled by the router
\* itself, whatever route the map holds for that name
C40_BuiltInNeverForwarded ==
    disp.last.name \in BuiltInTools => disp.last.by = "built-in"

\* a backend listed a tool named like a built-in, the map routes the name to
\* that backend, and the call for it was handled all the same
C40_Witness ==
    /\ disp.last.name \in BuiltInTools
    /\ disp.map[disp.last.name] \in BackendNames
    /\ disp.last.by = "built-in"

====
